---- MODULE Spec2Model ----
(***************************************************************************)
(* DungeonManager: N dungeon instances (worker threads) withdraw parties   *)
(* (1 tank, 1 healer, 3 dps) from a shared queue guarded by one mutex and   *)
(* one condition variable.  Two variants of the program are modelled:       *)
(*   producer = FALSE : src/dungeonManager.cpp          (no replenisher)    *)
(*   producer = TRUE  : src/dungeonManagerProducer.cpp  (playerProducer)    *)
(* Each thread is a small program counter machine; a step is one mutex       *)
(* acquisition, one critical-section body (up to the release of the mutex), *)
(* or one unlocked statement.  Wall-clock time is the environment: a test of  *)
(* a runtime bound may find it expired at any evaluation, and a sleep        *)
(* returns at an arbitrary moment.                                           *)
(***************************************************************************)
EXTENDS Integers, FiniteSets, Sequences, TLC

\* ---- bounds of the model (inputs drawn at construction) ----
MaxInstances == 2      \* dungeon_count n ranges over 1..MaxInstances
MaxParties == 1        \* initial t, h in 0..MaxParties, d in 0..3*MaxParties
MaxTime == 1           \* 0 <= t1 <= t2 <= MaxTime
MaxPlayersAdded == 3   \* the producer starts no tick once this many were added
FullParties == 2       \* parties in the initial queue of the runs of SpecFull

\* ---- program constants: the shape of a party ----
TankNeed == 1
HealerNeed == 1
DpsNeed == 3

VARIABLES
    producer,             \* which program runs: TRUE = dungeonManagerProducer.cpp
    dungeon_count,        \* n
    tank_queue, healer_queue, dps_queue,
    dungeon_active, parties_served, total_time_served,   \* vectors over instances
    total_parties_formed, total_players_added,
    shutdown,
    mtx,                  \* owner of std::mutex mtx
    wpc,                  \* position of each dungeonInstance thread
    dungeon_time,         \* local of dungeonInstance
    t1, t2,               \* arguments of startInstances
    cpc,                  \* position of startInstances (the coordinator)
    joined,               \* number of instance threads already joined
    ppc,                  \* position of playerProducer
    to_add,               \* locals <<tanks_to_add, healers_to_add, dps_to_add>>
    runtime_expired,      \* startInstances has seen now - start_time >= bound
    producer_expired,     \* playerProducer has seen elapsed >= max_runtime_seconds
    initial,              \* history: the constructor's <<t, h, d>>
    added,                \* history: per category sums passed to addPlayersToQueue
    at_shutdown,          \* history: snapshot taken by the step that sets shutdown
    notified,             \* history: the step just taken called cv.notify_all()
    completed             \* history: dungeon runs each instance has completed

vars == << producer, dungeon_count, tank_queue, healer_queue, dps_queue,
           dungeon_active, parties_served, total_time_served,
           total_parties_formed, total_players_added, shutdown, mtx, wpc,
           dungeon_time, t1, t2, cpc, joined, ppc, to_add, runtime_expired,
           producer_expired, initial, added, at_shutdown, notified,
           completed >>

\* ---- threads and the mutex ----
Instances == 0 .. (dungeon_count - 1)
NoOwner == << "none", 0 >>
Coordinator == << "coordinator", 0 >>
Producer == << "producer", 0 >>
Instance(i) == << "instance", i >>

\* ---- DungeonManager::canFormParty ----
\* Variant of canFormParty that forgets the dps requirement.
canFormParty_NoDps ==
    tank_queue >= TankNeed /\ healer_queue >= HealerNeed

canFormParty ==
    tank_queue >= TankNeed /\ healer_queue >= HealerNeed /\ dps_queue >= DpsNeed

\* cv.notify_all(): every thread blocked in cv.wait becomes runnable and has to
\* re-acquire the mutex before it re-evaluates the predicate.
notify_all(pc) ==
    [ i \in DOMAIN pc |-> IF pc[i] = "waiting" THEN "woken" ELSE pc[i] ]

\* The value of at_shutdown while shutdown has not been set.
NoSnapshot == [ set |-> FALSE, viable |-> FALSE, formed |-> 0, players |-> 0 ]

\* ---- construction: DungeonManager(n, t, h, d), startInstances(t1, t2) ----
Init ==
    /\ producer \in BOOLEAN
    /\ dungeon_count \in 1 .. MaxInstances
    /\ tank_queue \in 0 .. MaxParties * TankNeed
    /\ healer_queue \in 0 .. MaxParties * HealerNeed
    /\ dps_queue \in 0 .. MaxParties * DpsNeed
    /\ t1 \in 0 .. MaxTime
    /\ t2 \in t1 .. MaxTime
    /\ dungeon_active = [ i \in Instances |-> FALSE ]
    /\ parties_served = [ i \in Instances |-> 0 ]
    /\ total_time_served = [ i \in Instances |-> 0 ]
    /\ total_parties_formed = 0
    /\ total_players_added = 0
    /\ shutdown = FALSE
    /\ mtx = NoOwner
    /\ wpc = [ i \in Instances |-> "start" ]
    /\ dungeon_time = [ i \in Instances |-> 0 ]
    /\ cpc = "loop"
    /\ joined = 0
    /\ ppc = IF producer THEN "loop" ELSE "absent"
    /\ to_add = << 0, 0, 0 >>
    /\ runtime_expired = FALSE
    /\ producer_expired = FALSE
    /\ initial = << tank_queue, healer_queue, dps_queue >>
    /\ added = << 0, 0, 0 >>
    /\ at_shutdown = NoSnapshot
    /\ notified = FALSE
    /\ completed = [ i \in Instances |-> 0 ]

\* ---- groups of variables left alone ----
poolVars == << tank_queue, healer_queue, dps_queue >>
statVars == << dungeon_active, parties_served, total_time_served >>
inputVars == << producer, dungeon_count, t1, t2, initial >>
clockVars == << runtime_expired, producer_expired >>
coordVars == << cpc, joined >>
prodVars == << ppc, to_add, added, total_players_added >>

\* ---- DungeonManager::formParty ----
\* Variant of formParty that forgets total_parties_formed++.
formParty_NoCount ==
    /\ tank_queue' = tank_queue - TankNeed
    /\ healer_queue' = healer_queue - HealerNeed
    /\ dps_queue' = dps_queue - DpsNeed
    /\ total_parties_formed' = total_parties_formed

\* Variant of formParty that counts the party and leaves the queue as it was.
formParty_NoWithdraw ==
    /\ UNCHANGED << tank_queue, healer_queue, dps_queue >>
    /\ total_parties_formed' = total_parties_formed + 1

formParty ==
    /\ tank_queue' = tank_queue - TankNeed
    /\ healer_queue' = healer_queue - HealerNeed
    /\ dps_queue' = dps_queue - DpsNeed
    /\ total_parties_formed' = total_parties_formed + 1

\* The predicate of cv.wait in dungeonInstance.
WaitPredicate == canFormParty \/ shutdown

\* Variant of the break condition that stops on shutdown whatever the queue holds.
ExitCondition_ShutdownOnly == shutdown

\* The condition of the break in dungeonInstance.
ExitCondition == shutdown /\ ~canFormParty

\* ---- DungeonManager::dungeonInstance(instance_id = i, t1, t2) ----
\* std::unique_lock<std::mutex> lock(mtx) at the top of the loop.
W_Lock(i) ==
    /\ notified' = FALSE
    /\ wpc[i] = "start"
    /\ mtx = NoOwner
    /\ mtx' = Instance(i)
    /\ wpc' = [ wpc EXCEPT ![i] = "wait_pred" ]
    /\ UNCHANGED << poolVars, statVars, inputVars, clockVars, coordVars, prodVars,
                    total_parties_formed, shutdown, dungeon_time, at_shutdown, completed >>

\* cv.wait(lock, pred): with the mutex held the predicate is false, so the
\* thread releases the mutex and blocks.
W_Wait(i) ==
    /\ notified' = FALSE
    /\ wpc[i] = "wait_pred"
    /\ mtx = Instance(i)
    /\ ~WaitPredicate
    /\ wpc' = [ wpc EXCEPT ![i] = "waiting" ]
    /\ mtx' = NoOwner
    /\ UNCHANGED << poolVars, statVars, inputVars, clockVars, coordVars, prodVars,
                    total_parties_formed, shutdown, dungeon_time, at_shutdown, completed >>

\* A condition variable may wake a waiter without any notification.
W_SpuriousWake(i) ==
    /\ notified' = FALSE
    /\ wpc[i] = "waiting"
    /\ wpc' = [ wpc EXCEPT ![i] = "woken" ]
    /\ UNCHANGED << poolVars, statVars, inputVars, clockVars, coordVars, prodVars,
                    total_parties_formed, shutdown, dungeon_time, at_shutdown, completed, mtx >>

\* A woken waiter re-acquires the mutex inside cv.wait and re-checks the predicate.
W_Reacquire(i) ==
    /\ notified' = FALSE
    /\ wpc[i] = "woken"
    /\ mtx = NoOwner
    /\ mtx' = Instance(i)
    /\ wpc' = [ wpc EXCEPT ![i] = "wait_pred" ]
    /\ UNCHANGED << poolVars, statVars, inputVars, clockVars, coordVars, prodVars,
                    total_parties_formed, shutdown, dungeon_time, at_shutdown, completed >>

\* Variant of the step after the wait in which the instance that formed a party
\* goes on to its dungeon run without lock.unlock().
W_Decide_NoUnlock(i) ==
    /\ notified' = FALSE
    /\ wpc[i] = "wait_pred"
    /\ mtx = Instance(i)
    /\ WaitPredicate
    /\ IF ExitCondition
          THEN /\ wpc' = [ wpc EXCEPT ![i] = "stopped" ]
               /\ mtx' = NoOwner
               /\ UNCHANGED << poolVars, statVars, total_parties_formed >>
          ELSE IF canFormParty
          THEN /\ formParty
               /\ dungeon_active' = [ dungeon_active EXCEPT ![i] = TRUE ]
               /\ parties_served' = [ parties_served EXCEPT ![i] = @ + 1 ]
               /\ wpc' = [ wpc EXCEPT ![i] = "draw" ]
               /\ mtx' = mtx
               /\ UNCHANGED total_time_served
          ELSE /\ wpc' = [ wpc EXCEPT ![i] = "start" ]
               /\ mtx' = NoOwner
               /\ UNCHANGED << poolVars, statVars, total_parties_formed >>
    /\ UNCHANGED << inputVars, clockVars, coordVars, prodVars, shutdown,
                    dungeon_time, at_shutdown, completed >>

\* cv.wait returns with the mutex held because the predicate is true; in the
\* same critical section: break, or form a party and unlock, or loop again.
W_Decide(i) ==
    /\ notified' = FALSE
    /\ wpc[i] = "wait_pred"
    /\ mtx = Instance(i)
    /\ WaitPredicate
    /\ IF ExitCondition
          THEN /\ wpc' = [ wpc EXCEPT ![i] = "stopped" ]
               /\ UNCHANGED << poolVars, statVars, total_parties_formed >>
          ELSE IF canFormParty
          THEN /\ formParty
               /\ dungeon_active' = [ dungeon_active EXCEPT ![i] = TRUE ]
               /\ parties_served' = [ parties_served EXCEPT ![i] = @ + 1 ]
               /\ wpc' = [ wpc EXCEPT ![i] = "draw" ]
               /\ UNCHANGED total_time_served
          ELSE /\ wpc' = [ wpc EXCEPT ![i] = "start" ]
               /\ UNCHANGED << poolVars, statVars, total_parties_formed >>
    /\ mtx' = NoOwner
    /\ UNCHANGED << inputVars, clockVars, coordVars, prodVars, shutdown,
                    dungeon_time, at_shutdown, completed >>

\* Variant of the draw whose distribution reaches one second past t2.
W_Draw_BeyondMax(i) ==
    /\ notified' = FALSE
    /\ wpc[i] = "draw"
    /\ \E d \in t1 .. (t2 + 1) : dungeon_time' = [ dungeon_time EXCEPT ![i] = d ]
    /\ wpc' = [ wpc EXCEPT ![i] = "busy" ]
    /\ UNCHANGED << poolVars, statVars, inputVars, clockVars, coordVars, prodVars,
                    total_parties_formed, shutdown, at_shutdown, completed, mtx >>

\* int dungeon_time = time_dist(gen), outside the mutex, on the shared generator.
W_Draw(i) ==
    /\ notified' = FALSE
    /\ wpc[i] = "draw"
    /\ \E d \in t1 .. t2 : dungeon_time' = [ dungeon_time EXCEPT ![i] = d ]
    /\ wpc' = [ wpc EXCEPT ![i] = "busy" ]
    /\ UNCHANGED << poolVars, statVars, inputVars, clockVars, coordVars, prodVars,
                    total_parties_formed, shutdown, at_shutdown, completed, mtx >>

\* sleep_for(seconds(dungeon_time)) has returned and lock.lock() succeeds.
W_Relock(i) ==
    /\ notified' = FALSE
    /\ wpc[i] = "busy"
    /\ mtx = NoOwner
    /\ mtx' = Instance(i)
    /\ wpc' = [ wpc EXCEPT ![i] = "complete" ]
    /\ UNCHANGED << poolVars, statVars, inputVars, clockVars, coordVars, prodVars,
                    total_parties_formed, shutdown, dungeon_time, at_shutdown, completed >>

\* Variant of the completion record that leaves the instance marked active.
recordCompletion_StaysActive(i) ==
    /\ total_time_served' = [ total_time_served EXCEPT ![i] = @ + dungeon_time[i] ]
    /\ dungeon_active' = dungeon_active

\* total_time_served[instance_id] += dungeon_time; dungeon_active[instance_id] = false
recordCompletion(i) ==
    /\ total_time_served' = [ total_time_served EXCEPT ![i] = @ + dungeon_time[i] ]
    /\ dungeon_active' = [ dungeon_active EXCEPT ![i] = FALSE ]

\* Record the run, notify_all, and release the mutex at the end of the iteration.
W_Complete(i) ==
    /\ wpc[i] = "complete"
    /\ mtx = Instance(i)
    /\ recordCompletion(i)
    /\ dungeon_time' = [ dungeon_time EXCEPT ![i] = 0 ]
    /\ wpc' = [ notify_all(wpc) EXCEPT ![i] = "start" ]
    /\ notified' = TRUE
    /\ mtx' = NoOwner
    /\ completed' = [ completed EXCEPT ![i] = @ + 1 ]
    /\ UNCHANGED << poolVars, parties_served, inputVars, clockVars, coordVars,
                    prodVars, total_parties_formed, shutdown, at_shutdown >>

\* ---- DungeonManager::addPlayersToQueue(tanks, healers, dps) ----
\* Variant of addPlayersToQueue that forgets total_players_added.
addPlayersToQueue_NoCount(tanks, healers, dps) ==
    /\ tank_queue' = tank_queue + tanks
    /\ healer_queue' = healer_queue + healers
    /\ dps_queue' = dps_queue + dps
    /\ total_players_added' = total_players_added
    /\ wpc' = notify_all(wpc)
    /\ notified' = TRUE

\* Variant of addPlayersToQueue without cv.notify_all().
addPlayersToQueue_NoNotify(tanks, healers, dps) ==
    /\ tank_queue' = tank_queue + tanks
    /\ healer_queue' = healer_queue + healers
    /\ dps_queue' = dps_queue + dps
    /\ total_players_added' = total_players_added + (tanks + healers + dps)
    /\ wpc' = wpc
    /\ notified' = FALSE

addPlayersToQueue(tanks, healers, dps) ==
    /\ tank_queue' = tank_queue + tanks
    /\ healer_queue' = healer_queue + healers
    /\ dps_queue' = dps_queue + dps
    /\ total_players_added' = total_players_added + (tanks + healers + dps)
    /\ wpc' = notify_all(wpc)
    /\ notified' = TRUE

\* ---- DungeonManager::playerProducer(interval_ms, max_runtime_seconds) ----
\* count_dist(1, 3) and role_dist(0, 2)
MinCount == 1
MaxCount == 3
Roles == 0 .. 2

\* The number of units of one role in a sequence of drawn roles.
CountRole(roles, r) == Cardinality({ k \in DOMAIN roles : roles[k] = r })

\* playerProducer is at the test of its loop: at its start, or when the
\* sleep_for(milliseconds(interval_ms)) at the end of an iteration has returned.
AtProducerTest == ppc \in { "loop", "sleep" }

\* Top of the loop, elapsed < max_runtime_seconds: start a tick.
P_Tick ==
    /\ notified' = FALSE
    /\ AtProducerTest
    /\ total_players_added + MaxCount <= MaxPlayersAdded
    /\ ppc' = "draw"
    /\ UNCHANGED << poolVars, statVars, inputVars, clockVars, coordVars, to_add,
                    added, total_players_added, total_parties_formed, shutdown,
                    dungeon_time, at_shutdown, completed, mtx, wpc >>

\* Top of the loop, elapsed >= max_runtime_seconds: break.
P_Stop ==
    /\ notified' = FALSE
    /\ AtProducerTest
    /\ producer_expired' = TRUE
    /\ ppc' = "done"
    /\ UNCHANGED << poolVars, statVars, inputVars, runtime_expired, coordVars, to_add,
                    added, total_players_added, total_parties_formed, shutdown,
                    dungeon_time, at_shutdown, completed, mtx, wpc >>

\* players_to_add = count_dist(gen), then one role_dist(gen) per player, outside
\* the mutex, on the shared generator.
P_Draw ==
    /\ notified' = FALSE
    /\ ppc = "draw"
    /\ \E players_to_add \in MinCount .. MaxCount :
         \E roles \in [ 1 .. players_to_add -> Roles ] :
            to_add' = << CountRole(roles, 0), CountRole(roles, 1), CountRole(roles, 2) >>
    /\ ppc' = "add_lock"
    /\ UNCHANGED << poolVars, statVars, inputVars, clockVars, coordVars, added,
                    total_players_added, total_parties_formed, shutdown,
                    dungeon_time, at_shutdown, completed, mtx, wpc >>

\* std::lock_guard<std::mutex> lock(mtx) around addPlayersToQueue.
P_AddLock ==
    /\ notified' = FALSE
    /\ ppc = "add_lock"
    /\ mtx = NoOwner
    /\ mtx' = Producer
    /\ ppc' = "add"
    /\ UNCHANGED << poolVars, statVars, inputVars, clockVars, coordVars, to_add,
                    added, total_players_added, total_parties_formed, shutdown,
                    dungeon_time, at_shutdown, completed, wpc >>

\* addPlayersToQueue under the mutex, then the lock_guard releases it.
P_Add ==
    /\ ppc = "add"
    /\ mtx = Producer
    /\ addPlayersToQueue(to_add[1], to_add[2], to_add[3])
    /\ added' = << added[1] + to_add[1], added[2] + to_add[2], added[3] + to_add[3] >>
    /\ to_add' = << 0, 0, 0 >>
    /\ mtx' = NoOwner
    /\ ppc' = "sleep"
    /\ UNCHANGED << statVars, inputVars, clockVars, coordVars,
                    total_parties_formed, shutdown, dungeon_time, at_shutdown, completed >>

\* ---- DungeonManager::startInstances: the coordinator ----
\* The test of the observation loop in dungeonManager.cpp.
NotEnoughPlayers == tank_queue < 1 \/ healer_queue < 1 \/ dps_queue < 3

\* startInstances is at the test of its loop.  In dungeonManagerProducer.cpp the
\* sleep_for(seconds(2)) ends the iteration, so its return leads to the test.
AtLoopTest == cpc = "loop" \/ (producer /\ cpc = "sleep")

\* while (steady_clock::now() - start_time < runtime bound) is true, and the
\* std::lock_guard<std::mutex> lock(mtx) of displayStatus() is acquired.
C_DisplayLock ==
    /\ notified' = FALSE
    /\ AtLoopTest
    /\ mtx = NoOwner
    /\ mtx' = Coordinator
    /\ cpc' = "display"
    /\ UNCHANGED << poolVars, statVars, inputVars, clockVars, joined, prodVars,
                    total_parties_formed, shutdown, dungeon_time, at_shutdown, completed, wpc >>

\* The loop test finds the runtime bound expired.
C_LoopExit ==
    /\ notified' = FALSE
    /\ AtLoopTest
    /\ runtime_expired' = TRUE
    /\ cpc' = "shutdown_lock"
    /\ UNCHANGED << poolVars, statVars, inputVars, producer_expired, joined, prodVars,
                    total_parties_formed, shutdown, dungeon_time, at_shutdown, completed,
                    mtx, wpc >>

\* displayStatus(): print the snapshot, release the mutex.
C_Display ==
    /\ notified' = FALSE
    /\ cpc = "display"
    /\ mtx = Coordinator
    /\ mtx' = NoOwner
    /\ cpc' = "sleep"
    /\ UNCHANGED << poolVars, statVars, inputVars, clockVars, joined, prodVars,
                    total_parties_formed, shutdown, dungeon_time, at_shutdown, completed, wpc >>

\* Variant in which the loop of dungeonManagerProducer.cpp has the queue test of
\* dungeonManager.cpp too.
C_CheckLock_BothPrograms ==
    /\ notified' = FALSE
    /\ cpc = "sleep"
    /\ mtx = NoOwner
    /\ mtx' = Coordinator
    /\ cpc' = "check"
    /\ UNCHANGED << poolVars, statVars, inputVars, clockVars, joined, prodVars,
                    total_parties_formed, shutdown, dungeon_time, at_shutdown, completed, wpc >>

\* dungeonManager.cpp: sleep_for(seconds(2)) has returned and the
\* std::lock_guard<std::mutex> lock(mtx) inside the loop is acquired.
C_CheckLock ==
    /\ notified' = FALSE
    /\ ~producer
    /\ cpc = "sleep"
    /\ mtx = NoOwner
    /\ mtx' = Coordinator
    /\ cpc' = "check"
    /\ UNCHANGED << poolVars, statVars, inputVars, clockVars, joined, prodVars,
                    total_parties_formed, shutdown, dungeon_time, at_shutdown, completed, wpc >>

\* Variant of the queue test whose lock outlives the iteration: the mutex is
\* still held when the loop goes round to displayStatus().
C_Check_KeepsLock ==
    /\ notified' = FALSE
    /\ cpc = "check"
    /\ mtx = Coordinator
    /\ cpc' = IF NotEnoughPlayers THEN "shutdown_lock" ELSE "loop"
    /\ mtx' = IF NotEnoughPlayers THEN NoOwner ELSE mtx
    /\ UNCHANGED << poolVars, statVars, inputVars, clockVars, joined, prodVars,
                    total_parties_formed, shutdown, dungeon_time, at_shutdown, completed, wpc >>

\* Variant of the queue test that never breaks out of the loop.
C_Check_NoBreak ==
    /\ notified' = FALSE
    /\ cpc = "check"
    /\ mtx = Coordinator
    /\ cpc' = "loop"
    /\ mtx' = NoOwner
    /\ UNCHANGED << poolVars, statVars, inputVars, clockVars, joined, prodVars,
                    total_parties_formed, shutdown, dungeon_time, at_shutdown, completed, wpc >>

\* dungeonManager.cpp: break when no party can be formed; the guard is released
\* on the break and at the end of the iteration alike.
C_Check ==
    /\ notified' = FALSE
    /\ cpc = "check"
    /\ mtx = Coordinator
    /\ cpc' = IF NotEnoughPlayers THEN "shutdown_lock" ELSE "loop"
    /\ mtx' = NoOwner
    /\ UNCHANGED << poolVars, statVars, inputVars, clockVars, joined, prodVars,
                    total_parties_formed, shutdown, dungeon_time, at_shutdown, completed, wpc >>

\* std::lock_guard<std::mutex> lock(mtx) of the shutdown block.
C_ShutdownLock ==
    /\ notified' = FALSE
    /\ cpc = "shutdown_lock"
    /\ mtx = NoOwner
    /\ mtx' = Coordinator
    /\ cpc' = "set_shutdown"
    /\ UNCHANGED << poolVars, statVars, inputVars, clockVars, joined, prodVars,
                    total_parties_formed, shutdown, dungeon_time, at_shutdown, completed, wpc >>

\* Variant of the shutdown block without cv.notify_all().
SetShutdown_NoNotify ==
    /\ shutdown' = TRUE
    /\ wpc' = wpc
    /\ notified' = FALSE

\* What the shutdown block does to the flag and the waiters.
SetShutdown ==
    /\ shutdown' = TRUE
    /\ wpc' = notify_all(wpc)
    /\ notified' = TRUE

\* shutdown = true; cv.notify_all(); release the mutex.
C_SetShutdown ==
    /\ cpc = "set_shutdown"
    /\ mtx = Coordinator
    /\ SetShutdown
    /\ at_shutdown' = [ set |-> TRUE, viable |-> canFormParty,
                        formed |-> total_parties_formed,
                        players |-> total_players_added ]
    /\ mtx' = NoOwner
    /\ cpc' = IF producer THEN "join_producer" ELSE "join"
    /\ UNCHANGED << poolVars, statVars, inputVars, clockVars, joined, prodVars,
                    total_parties_formed, dungeon_time, completed >>

\* dungeonManagerProducer.cpp: producer_thread.join()
C_JoinProducer ==
    /\ notified' = FALSE
    /\ cpc = "join_producer"
    /\ ppc = "done"
    /\ cpc' = "join"
    /\ UNCHANGED << poolVars, statVars, inputVars, clockVars, joined, prodVars,
                    total_parties_formed, shutdown, dungeon_time, at_shutdown, completed,
                    mtx, wpc >>

\* Variant of the join that does not wait for the thread.
Joinable_NoWait(i) == TRUE

\* Whether the thread of instance i has returned from dungeonInstance.
Joinable(i) == wpc[i] = "stopped"

\* for (auto& instance : instances) instance.join(), one thread at a time.
C_Join ==
    /\ notified' = FALSE
    /\ cpc = "join"
    /\ joined < dungeon_count
    /\ Joinable(joined)
    /\ joined' = joined + 1
    /\ cpc' = IF joined + 1 = dungeon_count THEN "summary" ELSE "join"
    /\ UNCHANGED << poolVars, statVars, inputVars, clockVars, prodVars,
                    total_parties_formed, shutdown, dungeon_time, at_shutdown, completed,
                    mtx, wpc >>

\* displayFinalSummary(), then startInstances returns.
C_Summary ==
    /\ notified' = FALSE
    /\ cpc = "summary"
    /\ cpc' = "done"
    /\ UNCHANGED << poolVars, statVars, inputVars, clockVars, joined, prodVars,
                    total_parties_formed, shutdown, dungeon_time, at_shutdown, completed,
                    mtx, wpc >>

\* ---- the program ----
WorkerStep(i) ==
    \/ W_Lock(i)
    \/ W_Wait(i)
    \/ W_Reacquire(i)
    \/ W_Decide(i)
    \/ W_Draw(i)
    \/ W_Relock(i)
    \/ W_Complete(i)

ProducerStep ==
    \/ P_Tick
    \/ P_Stop
    \/ P_Draw
    \/ P_AddLock
    \/ P_Add

CoordinatorStep ==
    \/ C_DisplayLock
    \/ C_LoopExit
    \/ C_Display
    \/ C_CheckLock
    \/ C_Check
    \/ C_ShutdownLock
    \/ C_SetShutdown
    \/ C_JoinProducer
    \/ C_Join
    \/ C_Summary

Next ==
    \/ \E i \in Instances : WorkerStep(i)
    \/ \E i \in Instances : W_SpuriousWake(i)
    \/ ProducerStep
    \/ CoordinatorStep

\* Both programs: the program that runs is drawn with the inputs.
Spec == Init /\ [][Next]_vars

\* src/dungeonManager.cpp alone: no replenisher thread, and the coordinator
\* checks the queue in its loop.
InitPlain == Init /\ ~producer

CoordinatorPlainStep ==
    \/ C_DisplayLock
    \/ C_LoopExit
    \/ C_Display
    \/ C_CheckLock
    \/ C_Check
    \/ C_ShutdownLock
    \/ C_SetShutdown
    \/ C_Join
    \/ C_Summary

NextPlain ==
    \/ \E i \in Instances : WorkerStep(i)
    \/ \E i \in Instances : W_SpuriousWake(i)
    \/ CoordinatorPlainStep

SpecPlain == InitPlain /\ [][NextPlain]_vars

\* src/dungeonManagerProducer.cpp alone.
InitProducer == Init /\ producer

CoordinatorProducerStep ==
    \/ C_DisplayLock
    \/ C_LoopExit
    \/ C_Display
    \/ C_ShutdownLock
    \/ C_SetShutdown
    \/ C_JoinProducer
    \/ C_Join
    \/ C_Summary

NextProducer ==
    \/ \E i \in Instances : WorkerStep(i)
    \/ \E i \in Instances : W_SpuriousWake(i)
    \/ ProducerStep
    \/ CoordinatorProducerStep

SpecProducer == InitProducer /\ [][NextProducer]_vars

\* Both programs started on a queue that holds FullParties parties, so that
\* several instances can run a party at the same time.
InitFull ==
    /\ producer \in BOOLEAN
    /\ dungeon_count \in 1 .. MaxInstances
    /\ tank_queue = FullParties * TankNeed
    /\ healer_queue = FullParties * HealerNeed
    /\ dps_queue = FullParties * DpsNeed
    /\ t1 \in 0 .. MaxTime
    /\ t2 \in t1 .. MaxTime
    /\ dungeon_active = [ i \in Instances |-> FALSE ]
    /\ parties_served = [ i \in Instances |-> 0 ]
    /\ total_time_served = [ i \in Instances |-> 0 ]
    /\ total_parties_formed = 0
    /\ total_players_added = 0
    /\ shutdown = FALSE
    /\ mtx = NoOwner
    /\ wpc = [ i \in Instances |-> "start" ]
    /\ dungeon_time = [ i \in Instances |-> 0 ]
    /\ cpc = "loop"
    /\ joined = 0
    /\ ppc = IF producer THEN "loop" ELSE "absent"
    /\ to_add = << 0, 0, 0 >>
    /\ runtime_expired = FALSE
    /\ producer_expired = FALSE
    /\ initial = << tank_queue, healer_queue, dps_queue >>
    /\ added = << 0, 0, 0 >>
    /\ at_shutdown = NoSnapshot
    /\ notified = FALSE
    /\ completed = [ i \in Instances |-> 0 ]

SpecFull == InitFull /\ [][Next]_vars

\* ---- scheduling ----
\* Every thread that can run again and again does run (SF per thread): a step
\* that needs no mutex stays possible until it is taken, and a thread that wants
\* the mutex gets it when the mutex is free again and again, since each thread
\* sleeps, blocks or ends between two of its own critical sections.
\* Nothing is assumed about the clock: the coordinator may find its runtime
\* bound unexpired for ever; and a spurious wakeup need never happen.
Fairness ==
    /\ \A i \in 0 .. (MaxInstances - 1) : SF_vars(i \in Instances /\ WorkerStep(i))
    /\ SF_vars(CoordinatorStep)
    /\ SF_vars(ProducerStep)

\* The inputs of the runs checked for progress: an empty queue, a queue one
\* tank short of a party, a queue holding exactly one party.
LivePools ==
    { << 0, 0, 0 >>, << 0, HealerNeed, DpsNeed >>, << TankNeed, HealerNeed, DpsNeed >> }

LiveInit ==
    /\ Init
    /\ initial \in LivePools
    /\ t1 = t2

FairSpec == LiveInit /\ [][Next]_vars /\ Fairness

\* src/dungeonManager.cpp alone under the same scheduling, on all its inputs.
FairnessPlain ==
    /\ \A i \in 0 .. (MaxInstances - 1) : SF_vars(i \in Instances /\ WorkerStep(i))
    /\ SF_vars(CoordinatorPlainStep)

FairSpecPlain == InitPlain /\ [][NextPlain]_vars /\ FairnessPlain

\* ======================= properties =======================

Min2(a, b) == IF a <= b THEN a ELSE b

\* The number of parties the constructor's pool <<t, h, d>> holds.
PartiesIn(pool) ==
    Min2(pool[1] \div TankNeed, Min2(pool[2] \div HealerNeed, pool[3] \div DpsNeed))

\* C1: in both programs, in every reachable state, the three queue counters
\* tank_queue, healer_queue and dps_queue are >= 0.
C1_NoNegativeCounters ==
    /\ tank_queue >= 0
    /\ healer_queue >= 0
    /\ dps_queue >= 0

\* C1 witness: parties were withdrawn and players were added, and a counter
\* stands at its lower limit.
C1_Witness ==
    /\ total_parties_formed >= 1
    /\ total_players_added >= 1
    /\ dps_queue = 0

\* C2: whenever the mutex is free, for each category, parties formed times the
\* category's share of a party plus the current counter equals the initial
\* count plus everything the replenisher added to that category.
C2_Conservation ==
    mtx = NoOwner =>
        /\ total_parties_formed * TankNeed + tank_queue = initial[1] + added[1]
        /\ total_parties_formed * HealerNeed + healer_queue = initial[2] + added[2]
        /\ total_parties_formed * DpsNeed + dps_queue = initial[3] + added[3]

\* C2 witness: a snapshot with the mutex free after a withdrawal and an add.
C2_Witness ==
    /\ mtx = NoOwner
    /\ total_parties_formed >= 1
    /\ added[1] + added[2] + added[3] >= 1

\* C3: src/dungeonManager.cpp, at least two instances, an initial queue that
\* holds exactly one party: at most one party is ever formed, by one instance
\* only; once it is formed canFormParty is false for everyone who evaluates
\* it; and when the program is done exactly one party was formed.
C3_AtomicWithdrawal ==
    (~producer /\ dungeon_count >= 2 /\ PartiesIn(initial) = 1) =>
        /\ total_parties_formed <= 1
        /\ Cardinality({ i \in Instances : parties_served[i] >= 1 }) <= 1
        /\ \A i \in Instances : parties_served[i] <= 1
        /\ Cardinality({ i \in Instances : dungeon_active[i] }) <= 1
        /\ (total_parties_formed = 1 => ~canFormParty)
        /\ (cpc = "done" => total_parties_formed = 1)

\* C3 witness: one instance runs the only party while another one, holding the
\* mutex, is about to evaluate canFormParty.
C3_Witness ==
    /\ ~producer /\ dungeon_count >= 2 /\ PartiesIn(initial) = 1
    /\ total_parties_formed = 1
    /\ \E i, j \in Instances :
          /\ i # j
          /\ dungeon_active[j]
          /\ wpc[i] = "wait_pred" /\ mtx = Instance(i) /\ parties_served[i] = 0

\* C4: an instance stops only in a critical section in which shutdown is true
\* and canFormParty is false; and an instance that holds the mutex after its
\* wait with shutdown true and canFormParty true forms that party and runs it.
C4_StopOnlyWhenDrained ==
    [][ \A i \in Instances :
          /\ (wpc[i] # "stopped" /\ wpc'[i] = "stopped") =>
                (wpc[i] = "wait_pred" /\ mtx = Instance(i) /\ shutdown /\ ~canFormParty)
          /\ (wpc[i] = "wait_pred" /\ mtx = Instance(i) /\ shutdown /\ canFormParty
                 /\ wpc'[i] # wpc[i]) =>
                (/\ wpc'[i] = "draw"
                 /\ dungeon_active'[i]
                 /\ total_parties_formed' = total_parties_formed + 1) ]_vars

\* C4 witness: one instance has stopped, and another one holds the mutex after
\* its wait with shutdown true and a party available.
C4_Witness ==
    \E i, j \in Instances :
        /\ wpc[i] = "stopped"
        /\ wpc[j] = "wait_pred" /\ mtx = Instance(j)
        /\ shutdown /\ canFormParty

\* C5 as stated: once shutdown was set with canFormParty false, no party is
\* formed any more, total_parties_formed stays what it was at that moment.
C5_NoPartyAfterDrainedShutdown ==
    (at_shutdown.set /\ ~at_shutdown.viable) =>
        total_parties_formed = at_shutdown.formed

\* C5 amended: once shutdown was set with canFormParty false, no party is
\* formed as long as the replenisher has added nothing since that moment (so
\* never in the program without a replenisher).
C5_NoPartyAfterDrainedShutdownUnlessAdded ==
    (at_shutdown.set /\ ~at_shutdown.viable
       /\ total_players_added = at_shutdown.players) =>
        total_parties_formed = at_shutdown.formed

\* C5 witness: shutdown was set on a queue holding no party, nothing was added
\* since, the replenisher is still running and an instance has already stopped.
C5_Witness ==
    /\ producer /\ ppc # "done"
    /\ at_shutdown.set /\ ~at_shutdown.viable
    /\ total_players_added = at_shutdown.players
    /\ \E i \in Instances : wpc[i] = "stopped"

\* C6: an instance that formed a party records its completion before it can
\* stop: it is active exactly from forming the party to recording it, the step
\* that clears dungeon_active adds dungeon_time to total_time_served, no step
\* stops an active instance, and no stopped instance is active.
C6_CooperativeShutdown ==
    /\ [](\A i \in Instances :
            /\ dungeon_active[i] <=> wpc[i] \in { "draw", "busy", "complete" }
            /\ wpc[i] = "stopped" => ~dungeon_active[i])
    /\ [][ \A i \in Instances :
            /\ dungeon_active[i] => wpc'[i] # "stopped"
            /\ (dungeon_active[i] /\ ~dungeon_active'[i]) =>
                  /\ wpc[i] = "complete" /\ mtx = Instance(i)
                  /\ total_time_served'[i] = total_time_served[i] + dungeon_time[i] ]_vars

\* C6 witness: shutdown was set while an instance was running a party (none was
\* formed since), and that instance now holds the mutex to record it.
C6_Witness ==
    \E i \in Instances :
        /\ shutdown /\ total_parties_formed = at_shutdown.formed
        /\ dungeon_active[i] /\ wpc[i] = "complete" /\ mtx = Instance(i)

\* C7: the final summary is produced only after shutdown was set and every
\* instance thread, and the replenisher thread where there is one, has ended;
\* then no instance is active, and no counter or statistic changes any more.
C7_SummaryAfterAllStopped ==
    /\ [](cpc \in { "summary", "done" } =>
            /\ shutdown
            /\ \A i \in Instances : wpc[i] = "stopped" /\ ~dungeon_active[i]
            /\ producer => ppc = "done")
    /\ [][ (cpc \in { "summary", "done" }) =>
              UNCHANGED << poolVars, statVars, total_parties_formed,
                           total_players_added, shutdown >> ]_vars

\* C7 witness: the summary of a run of the replenisher program in which players
\* were added and a party was formed.
C7_Witness ==
    /\ cpc = "summary"
    /\ producer
    /\ total_players_added >= 1
    /\ total_parties_formed >= 1

\* C10: src/dungeonManager.cpp: when all instances have stopped, the number of
\* parties formed is k = min(t, h, d div 3) and the queue is (t-k, h-k, d-3k);
\* with two instances and (1, 1, 3): one party, queue (0, 0, 0), one instance
\* with parties_served = 1 and the other with 0.
C10_FinalCount ==
    (~producer /\ \A i \in Instances : wpc[i] = "stopped") =>
        LET k == PartiesIn(initial) IN
        /\ total_parties_formed = k
        /\ tank_queue = initial[1] - k * TankNeed
        /\ healer_queue = initial[2] - k * HealerNeed
        /\ dps_queue = initial[3] - k * DpsNeed
        /\ (dungeon_count = 2 /\ initial = << 1, 1, 3 >>) =>
              /\ total_parties_formed = 1
              /\ << tank_queue, healer_queue, dps_queue >> = << 0, 0, 0 >>
              /\ { parties_served[0], parties_served[1] } = { 0, 1 }

\* C10 witness: two instances, (1, 1, 3), both stopped, the second one served
\* the party.
C10_Witness ==
    /\ ~producer /\ dungeon_count = 2 /\ initial = << 1, 1, 3 >>
    /\ \A i \in Instances : wpc[i] = "stopped"
    /\ parties_served[0] = 0 /\ parties_served[1] = 1

\* An instance is blocked in cv.wait: not notified yet, or notified and on its
\* way to re-acquire the mutex.
Blocked(i) == wpc[i] \in { "waiting", "woken" }

\* The parties that can have been formed out of everything the queue received.
PartiesSupplied ==
    PartiesIn(<< initial[1] + added[1], initial[2] + added[2], initial[3] + added[3] >>)

\* No run forms more parties than this: the players of the initial queue and
\* the players added, divided by the size of a party.
MaxFormed == MaxParties + (MaxPlayersAdded \div (TankNeed + HealerNeed + DpsNeed))

\* C8: no lost wakeup.  No instance sits in cv.wait un-notified while
\* canFormParty or shutdown is true; when an instance is blocked and a party is
\* available, a party is eventually formed, and never more parties than the
\* queue received; no instance stays blocked for ever while canFormParty or
\* shutdown is true.
C8_NoLostWakeup ==
    /\ [](\A i \in Instances : wpc[i] = "waiting" => ~WaitPredicate)
    /\ [](total_parties_formed <= PartiesSupplied)
    /\ \A k \in 0 .. MaxFormed :
          ((\E i \in Instances : Blocked(i)) /\ canFormParty
               /\ total_parties_formed = k)
            ~> (total_parties_formed = k + 1)
    /\ \A i \in 0 .. (MaxInstances - 1) :
          (i \in Instances /\ Blocked(i) /\ WaitPredicate)
            ~> (i \in Instances /\ ~Blocked(i))

\* C8 witness: the queue held no party, shutdown is not set, the replenisher's
\* add has just made exactly one party available, and a blocked instance has
\* been woken.
C8_Witness ==
    /\ producer /\ ppc = "sleep" /\ ~shutdown
    /\ PartiesIn(initial) = 0 /\ total_parties_formed = 0
    /\ PartiesIn(<< tank_queue, healer_queue, dps_queue >>) = 1
    /\ \E i \in Instances : wpc[i] = "woken"

\* C9: termination.  Once shutdown is set and the replenisher (if any) has
\* ended, every instance eventually stops and the coordinator's joins return;
\* with one instance, an empty queue and no replenisher, the instance stops
\* and the program ends with no party formed.
C9_Termination ==
    /\ (shutdown /\ (producer => ppc = "done"))
          ~> (cpc = "done" /\ \A i \in Instances : wpc[i] = "stopped")
    /\ (~producer /\ dungeon_count = 1 /\ initial = << 0, 0, 0 >>) =>
          <>(cpc = "done" /\ wpc[0] = "stopped" /\ total_parties_formed = 0)
    /\ [](~producer /\ initial = << 0, 0, 0 >> => total_parties_formed = 0)

\* C9 witness: one instance, an empty queue, no replenisher: the program has
\* ended, the instance has stopped, no party was formed.
C9_Witness ==
    /\ ~producer /\ dungeon_count = 1 /\ initial = << 0, 0, 0 >>
    /\ cpc = "done" /\ wpc[0] = "stopped" /\ total_parties_formed = 0

\* An instance is between forming a party and re-locking the mutex to record
\* it: it draws dungeon_time or sleeps.
InBusySleep(i) == wpc[i] \in { "draw", "busy" }

\* No thread other than instance i is inside a critical section.
OthersOutside(i) ==
    /\ \A j \in Instances \ { i } : wpc[j] \notin { "wait_pred", "complete" }
    /\ ppc # "add"
    /\ cpc \notin { "display", "check", "set_shutdown" }

\* C11: an instance in its dungeon run does not hold the mutex.  While it
\* sleeps the mutex is free unless another thread is inside a critical section,
\* so another instance can lock the mutex and withdraw a party that is
\* available, the replenisher can add, and the coordinator can take its status
\* snapshot and set shutdown.
C11_BusyHoldsNoMutex ==
    \A i \in Instances :
        InBusySleep(i) =>
            /\ mtx # Instance(i)
            /\ OthersOutside(i) => mtx = NoOwner
            /\ \A j \in Instances \ { i } :
                  /\ (OthersOutside(i) /\ wpc[j] = "start") => ENABLED W_Lock(j)
                  /\ (OthersOutside(i) /\ wpc[j] = "woken") => ENABLED W_Reacquire(j)
                  /\ (wpc[j] = "wait_pred" /\ canFormParty) => ENABLED W_Decide(j)
            /\ (OthersOutside(i) /\ ppc = "add_lock") => ENABLED P_AddLock
            /\ ppc = "add" => ENABLED P_Add
            /\ (OthersOutside(i) /\ AtLoopTest) => ENABLED C_DisplayLock
            /\ cpc = "display" => ENABLED C_Display
            /\ (OthersOutside(i) /\ cpc = "shutdown_lock") => ENABLED C_ShutdownLock
            /\ cpc = "set_shutdown" => ENABLED C_SetShutdown

\* C11 witness: an instance is still asleep in the run of the party it formed
\* before shutdown; since then shutdown was set, the replenisher has added
\* players and the other instance has withdrawn a party.
C11_Witness ==
    /\ producer
    /\ at_shutdown.set /\ at_shutdown.formed = 1 /\ at_shutdown.players = 0
    /\ total_players_added >= 1
    /\ total_parties_formed = 2
    /\ \E i, j \in Instances :
          /\ i # j
          /\ wpc[i] = "busy" /\ parties_served[i] = 1
          /\ wpc[j] = "draw" /\ parties_served[j] = 1

\* The threads that are executing a draw on DungeonManager::gen, the one
\* generator of the program: an instance at time_dist(gen), the replenisher at
\* count_dist(gen) and role_dist(gen).
DrawingThreads ==
    { Instance(i) : i \in { j \in Instances : wpc[j] = "draw" } }
        \cup (IF ppc = "draw" THEN { Producer } ELSE {})

\* C12 as stated: no state has two threads inside a draw on the same generator
\* at the same time.
C12_NoConcurrentDraw == Cardinality(DrawingThreads) <= 1

\* C13 as stated: every step that withdraws a party from the queue or adds
\* players to it calls cv.notify_all() in the same critical section.
C13_NotifyOnEveryMutation ==
    [][ (poolVars' # poolVars) => notified' ]_vars

\* C13 amended: every add calls cv.notify_all() in the critical section of the
\* add, and leaves no instance waiting un-notified.  A withdrawal calls none in
\* its critical section: the instance that formed the party calls
\* cv.notify_all() in the critical section that records the completion of the
\* run, holding the mutex again.
C13_NotifyOnAddAndCompletion ==
    [][ /\ (total_players_added' # total_players_added) =>
              /\ mtx = Producer
              /\ notified'
              /\ \A i \in Instances : wpc'[i] # "waiting"
        /\ (total_parties_formed' # total_parties_formed) => ~notified'
        /\ \A i \in Instances :
              (dungeon_active[i] /\ ~dungeon_active'[i]) =>
                  /\ mtx = Instance(i)
                  /\ notified'
                  /\ \A j \in Instances : wpc'[j] # "waiting" ]_vars

\* C13 witness: the replenisher has just added players and called
\* cv.notify_all(): a waiting instance was woken, while another instance is in
\* the run of a party it withdrew.
C13_Witness ==
    /\ notified /\ ppc = "sleep"
    /\ \E i, j \in Instances :
          /\ wpc[i] = "woken"
          /\ InBusySleep(j)

\* C14: shutdown starts false and is never reset.  It is written by one step
\* only, the coordinator's shutdown block: with the mutex held, with
\* cv.notify_all() in the same critical section (no instance is left waiting
\* un-notified), and at most once, since the coordinator is at that block only
\* while shutdown is still false and is past it when shutdown is true.
C14_ShutdownMonotonic ==
    /\ [](/\ cpc \in { "loop", "display", "sleep", "check", "shutdown_lock",
                       "set_shutdown" } => ~shutdown
          /\ cpc \in { "join_producer", "join", "summary", "done" } => shutdown
          /\ shutdown <=> at_shutdown.set)
    /\ [][ /\ shutdown => shutdown'
           /\ (shutdown' # shutdown) =>
                 /\ cpc = "set_shutdown" /\ cpc' # "set_shutdown"
                 /\ mtx = Coordinator
                 /\ notified'
                 /\ \A i \in Instances : wpc'[i] # "waiting"
                 /\ \A i \in Instances : wpc'[i] = wpc[i] \/ wpc[i] = "waiting"
                 /\ ppc' = ppc ]_vars

\* C14 witness: the coordinator has just set shutdown and called
\* cv.notify_all(); an instance that was waiting is woken, and the replenisher
\* is in the middle of a tick.
C14_Witness ==
    /\ shutdown /\ notified
    /\ cpc = "join_producer"
    /\ ppc = "add_lock"
    /\ \E i \in Instances : wpc[i] = "woken"

\* C15: src/dungeonManager.cpp.  When the coordinator's check finds that no
\* party can be formed it leaves its loop for the shutdown block, and only
\* then does it leave the loop from the check; so a queue that holds no party
\* leads to shutdown, and every instance blocked in cv.wait leaves the wait.
\* When shutdown was set without the runtime bound having been seen expired,
\* the queue held no party at that moment and no party is formed afterwards.
C15_ExhaustionShutdown ==
    /\ [][ (~producer /\ cpc = "check" /\ cpc' # cpc) =>
              /\ NotEnoughPlayers <=> cpc' = "shutdown_lock"
              /\ ~NotEnoughPlayers <=> cpc' = "loop" ]_vars
    /\ [](~producer /\ cpc = "shutdown_lock" /\ ~runtime_expired => ~canFormParty)
    /\ [](~producer /\ shutdown /\ ~runtime_expired =>
              /\ ~at_shutdown.viable
              /\ total_parties_formed = at_shutdown.formed
              /\ ~canFormParty)
    /\ (~producer /\ ~canFormParty) ~> shutdown
    /\ \A i \in 0 .. (MaxInstances - 1) :
          (~producer /\ i \in Instances /\ Blocked(i))
            ~> (i \in Instances /\ wpc[i] = "stopped")

\* C15 witness: the program without replenisher has ended by the queue check,
\* the runtime bound never seen expired, after the one party of its queue was
\* formed; every instance has stopped.
C15_Witness ==
    /\ ~producer /\ dungeon_count = MaxInstances
    /\ shutdown /\ ~runtime_expired
    /\ at_shutdown.formed = 1
    /\ cpc = "done"
    /\ \A i \in Instances : wpc[i] = "stopped"

\* The coordinator is inside displayStatus(): it holds the mutex and reads the
\* fields it prints.
InSnapshot == cpc = "display" /\ mtx = Coordinator

\* C16 as stated: in every status snapshot taken under the mutex,
\* parties_served[i] is the number of dungeon runs instance i has completed
\* (so 0 for an instance that is active with its first party).
C16_ServedCountsCompleted ==
    InSnapshot => \A i \in Instances : parties_served[i] = completed[i]

\* C17 as stated: src/dungeonManagerProducer.cpp: when the final summary is
\* produced, no party can be formed from what is left in the queue.
C17_DrainComplete ==
    (producer /\ cpc \in { "summary", "done" }) => ~canFormParty

\* C18: src/dungeonManagerProducer.cpp: the coordinator leaves its loop only
\* by the loop test finding the runtime bound expired, so shutdown is set only
\* after that; it never tests the queue, and a queue that holds no party with
\* every instance idle does not make it leave the loop.
C18_ShutdownOnlyOnRuntime ==
    /\ [](producer =>
            /\ cpc # "check"
            /\ cpc \in { "shutdown_lock", "set_shutdown" } => runtime_expired
            /\ shutdown => runtime_expired)
    /\ [][ (producer /\ cpc' # cpc /\ cpc' = "shutdown_lock") =>
              /\ AtLoopTest
              /\ ~runtime_expired /\ runtime_expired'
              /\ UNCHANGED << poolVars, mtx, shutdown >> ]_vars
    /\ [][ (producer /\ ~canFormParty /\ ~runtime_expired'
               /\ \A i \in Instances : Blocked(i)) =>
              (~shutdown' /\ cpc' \in { "loop", "display", "sleep" }) ]_vars

\* C18 witness: in the replenisher program the queue was emptied of parties,
\* every instance waits, the coordinator has finished a round of its loop, and
\* shutdown is not set since the runtime bound has not been seen expired.
C18_Witness ==
    /\ producer
    /\ total_parties_formed >= 1 /\ ~canFormParty
    /\ \A i \in Instances : wpc[i] = "waiting"
    /\ cpc = "sleep" /\ mtx = NoOwner
    /\ ~shutdown /\ ~runtime_expired

\* C19: the step of a replenisher tick that changes the queue is one critical
\* section under the mutex; it adds to each category a number >= 0 of players,
\* 1 to 3 in all (each drawn player went to one category), adds that total to
\* total_players_added, and leaves total_parties_formed, shutdown and the
\* instances' fields as they were.  No step changes total_players_added
\* otherwise, and neither total ever decreases.
C19_TickFrame ==
    /\ [][ (ppc = "add" /\ ppc' # ppc) =>
              LET tanks == tank_queue' - tank_queue
                  healers == healer_queue' - healer_queue
                  dps == dps_queue' - dps_queue
              IN /\ mtx = Producer /\ mtx' = NoOwner
                 /\ tanks >= 0 /\ healers >= 0 /\ dps >= 0
                 /\ tanks + healers + dps \in 1 .. 3
                 /\ << tanks, healers, dps >> = to_add
                 /\ total_players_added' = total_players_added + (tanks + healers + dps)
                 /\ UNCHANGED << total_parties_formed, shutdown, dungeon_active,
                                 parties_served, total_time_served, dungeon_time >> ]_vars
    /\ [][ (total_players_added' # total_players_added) =>
              (ppc = "add" /\ ppc' = "sleep") ]_vars
    /\ [][ /\ total_players_added' >= total_players_added
           /\ total_parties_formed' >= total_parties_formed ]_vars
    /\ [](total_players_added = added[1] + added[2] + added[3])

\* C19 witness: a tick has just added three players, one to each category,
\* while an instance is in the run of a party formed before.
C19_Witness ==
    /\ ppc = "sleep" /\ notified
    /\ added = << 1, 1, 1 >> /\ total_players_added = 3
    /\ total_parties_formed = 1
    /\ \E i \in Instances : dungeon_active[i]

\* The sum of a vector over the instances.
RECURSIVE SumUpTo(_, _)
SumUpTo(v, n) == IF n = 0 THEN 0 ELSE v[n - 1] + SumUpTo(v, n - 1)

SumOverInstances(v) == SumUpTo(v, dungeon_count)

ActiveInstances == { i \in Instances : dungeon_active[i] }

\* C20: whenever the mutex is free, and in every displayStatus snapshot, the
\* parties_served of all instances add up to total_parties_formed, and the
\* number of active instances is total_parties_formed minus the number of
\* completed runs, and at most dungeon_count.
C20_SnapshotConsistency ==
    (mtx = NoOwner \/ InSnapshot) =>
        /\ SumOverInstances(parties_served) = total_parties_formed
        /\ Cardinality(ActiveInstances)
              = total_parties_formed - SumOverInstances(completed)
        /\ Cardinality(ActiveInstances) <= dungeon_count

\* C20 witness: a displayStatus snapshot of two instances after two parties
\* were formed: one run is completed, the other instance is active.
C20_Witness ==
    /\ InSnapshot
    /\ dungeon_count = 2
    /\ total_parties_formed = 2
    /\ SumOverInstances(completed) = 1
    /\ Cardinality(ActiveInstances) = 1

\* C21: for every instance that is not active, total_time_served is at least
\* parties_served times t1 and at most parties_served times t2, every
\* dungeon_time being an integer of t1 .. t2; while an instance sleeps its
\* dungeon_time is in that range; and with t1 = t2 = 1 an instance that served
\* one party and is not active has total_time_served = 1.
C21_BusyTimeBounds ==
    \A i \in Instances :
        /\ wpc[i] \in { "busy", "complete" } => dungeon_time[i] \in t1 .. t2
        /\ ~dungeon_active[i] =>
              /\ total_time_served[i] >= parties_served[i] * t1
              /\ total_time_served[i] <= parties_served[i] * t2
              /\ (t1 = 1 /\ t2 = 1 /\ parties_served[i] = 1) =>
                    total_time_served[i] = 1

\* C21 witness: with t1 = 0 and t2 = 1 an instance has served two parties and
\* is idle again, one run having taken 0 and the other 1.
C21_Witness ==
    /\ t1 = 0 /\ t2 = 1
    /\ \E i \in Instances :
          /\ ~dungeon_active[i]
          /\ parties_served[i] = 2
          /\ total_time_served[i] = 1

\* A thread of the program can take a step; a spurious wakeup is not counted,
\* since nothing obliges the condition variable to produce one.
SomeThreadCanStep ==
    \/ \E i \in Instances : ENABLED WorkerStep(i)
    \/ ENABLED ProducerStep
    \/ ENABLED CoordinatorStep

\* C22: in both programs, until startInstances has returned some thread can
\* take a step.  The mutex is owned exactly by a thread that is inside a
\* critical section: never by an instance blocked in cv.wait, asleep in its
\* run or stopped, never by the replenisher outside its add, never by the
\* coordinator when it is about to lock (before displayStatus(), before the
\* queue test, before the shutdown block), asleep, joining or done.
C22_DeadlockFree ==
    /\ cpc # "done" => SomeThreadCanStep
    /\ \A i \in Instances :
          mtx = Instance(i) <=> wpc[i] \in { "wait_pred", "complete" }
    /\ mtx = Producer <=> ppc = "add"
    /\ mtx = Coordinator <=> cpc \in { "display", "check", "set_shutdown" }
    /\ mtx \in { NoOwner, Producer, Coordinator } \cup { Instance(i) : i \in Instances }

\* C22 witness: shutdown is not set, every instance is blocked in cv.wait
\* un-notified, the replenisher has ended, and the coordinator is about to lock
\* the mutex for displayStatus(): it can.
C22_Witness ==
    /\ ~shutdown
    /\ \A i \in Instances : wpc[i] = "waiting"
    /\ producer /\ ppc = "done"
    /\ cpc = "loop" /\ mtx = NoOwner
    /\ total_parties_formed >= 1
    /\ ENABLED C_DisplayLock

====
